---- MODULE Spec2Model ----
(***************************************************************************)
(* Model of the admin console (AdminPanel) and of the auth/profile gateway *)
(* (services/authService.ts).                                              *)
(*                                                                         *)
(* Strings the code computes on (ids, emails, names, the search box, the   *)
(* balance input) are sequences of one-character strings, so toLowerCase,  *)
(* includes, trim, split and parseFloat are modelled by what they do.      *)
(* A value that may be null/undefined is a sequence of length 0 or 1       *)
(* (None / Some(v)); a table row or a record with a missing column is a    *)
(* function whose DOMAIN lacks that column.                                *)
(***************************************************************************)
EXTENDS Integers, Sequences, FiniteSets, TLC

VARIABLES
    users,                  \* AdminPanel state: User[]
    transactions,           \* AdminPanel state: Transaction[]
    filteredTransactions,   \* AdminPanel state: Transaction[]
    trxSearch,              \* AdminPanel state: the search box
    bankHeap,               \* the CompanyBankInfo objects, by reference
    companyBankInfoList,    \* shared (context) state: references, in order
    bankList,               \* AdminPanel state: references, in order
    bankOp,                 \* the Settings-tab handler that ran last
    accounts,               \* remote account service: the accounts, [id, email]
    profiles,               \* remote table profiles: its rows, in table order
    last,                   \* the gateway call that returned last, with its result
    txs,                    \* remote transactions, in table order
    isBalanceModalOpen,     \* AdminPanel state
    selectedUserForBalance, \* AdminPanel state: None or Some(User)
    balanceAmount,          \* AdminPanel state: the balance input
    balanceOperation,       \* AdminPanel state: "add" or "set"
    tasks,                  \* the async handlers of the console that are running
    step,                   \* the handler step taken last
    user,                   \* useAuth(): the session's user, None or Some(User)
    isCreateModalOpen,      \* AdminPanel state
    createData,             \* AdminPanel state: the create-user form
    createError             \* AdminPanel state: None or Some(message)

searchVars == <<users, transactions, filteredTransactions, trxSearch>>

bankVars == <<bankHeap, companyBankInfoList, bankList, bankOp>>

gatewayVars == <<accounts, profiles, last>>

modalVars ==
    <<isBalanceModalOpen, selectedUserForBalance, balanceAmount, balanceOperation>>

createVars == <<isCreateModalOpen, createData, createError>>

panelVars == <<txs, modalVars, tasks, step, user, createVars>>

vars == <<searchVars, bankVars, gatewayVars, panelVars>>

None == <<>>
Some(v) == <<v>>

(***************************************************************************)
(* Bounds of the model.                                                    *)
(***************************************************************************)
MaxSearchLen == 2

\* CompanyBankInfo objects alive at a time.
MaxBanks == 2

\* Accounts the remote account service holds.
MaxUsers == 2

\* Async handlers of the console running at a time.
MaxHandlers == 1

\* Largest balance a profile row takes.
MaxBalance == 10

\* The most handlers of the console running at once where loads overlap.
MaxLoads == 2

\* The most calls of updateUserBalance in flight at once.
MaxWriters == 2

(***************************************************************************)
(* JavaScript string operations.                                           *)
(***************************************************************************)
Whitespace == {" "}

Digits == {"0", "1", "2", "3", "4", "5", "6", "7", "8", "9"}

ToLowerChar(c) ==
    CASE c = "J" -> "j"
      [] c = "D" -> "d"
      [] c = "T" -> "t"
      [] c = "U" -> "u"
      [] OTHER -> c

\* String.prototype.toLowerCase
ToLowerCase(s) == [i \in 1..Len(s) |-> ToLowerChar(s[i])]

\* String.prototype.includes: sub occurs in s at some offset (the empty string
\* occurs in every string).
Includes(s, sub) ==
    \E i \in 0..(Len(s) - Len(sub)) : SubSeq(s, i + 1, i + Len(sub)) = sub

RECURSIVE TrimStart(_)
TrimStart(s) ==
    IF s # <<>> /\ Head(s) \in Whitespace THEN TrimStart(Tail(s)) ELSE s

RECURSIVE TrimEnd(_)
TrimEnd(s) ==
    IF s # <<>> /\ s[Len(s)] \in Whitespace
        THEN TrimEnd(SubSeq(s, 1, Len(s) - 1))
        ELSE s

\* String.prototype.trim
Trim(s) == TrimEnd(TrimStart(s))

\* All strings over alphabet of length at most n.
StringsUpTo(alphabet, n) == UNION {[1..k -> alphabet] : k \in 0..n}

(***************************************************************************)
(* The transaction search effect (useEffect on trxSearch, transactions,    *)
(* users).                                                                 *)
(***************************************************************************)

\* users.find(u => u.id === userId): the first user with that id, or undefined.
FindUser(us, userId) ==
    LET idx == {i \in 1..Len(us) : us[i].id = userId}
    IN  IF idx = {} THEN None
        ELSE Some(us[CHOOSE i \in idx : \A j \in idx : i <= j])

\* The predicate of transactions.filter(...) with lower = trxSearch.toLowerCase().
\* owner?.email.toLowerCase().includes(lower) is undefined (falsy) when the
\* owner is not among the loaded users.
TrxMatches(t, us, lower) ==
    LET owner == FindUser(us, t.userId)
    IN  \/ Includes(ToLowerCase(t.id), lower)
        \/ Includes(ToLowerCase(t.userId), lower)
        \/ (owner # None /\ Includes(ToLowerCase(owner[1].email), lower))
        \/ (owner # None /\ Includes(ToLowerCase(owner[1].fullName), lower))

\* The effect with the search string used as typed (no toLowerCase).
FilterTransactionsNoLower(search, trxs, us) ==
    IF Trim(search) = <<>>
        THEN trxs
        ELSE LET Keep(t) == TrxMatches(t, us, search)
             IN  SelectSeq(trxs, Keep)

\* The value the effect passes to setFilteredTransactions.
FilterTransactions(search, trxs, us) ==
    IF Trim(search) = <<>>
        THEN trxs
        ELSE LET lower == ToLowerCase(search)
                 Keep(t) == TrxMatches(t, us, lower)
             IN  SelectSeq(trxs, Keep)

(***************************************************************************)
(* Data of the search specification: the lists a completed loadData left   *)
(* in the console.                                                         *)
(***************************************************************************)
MkUser(id, email, fullName) ==
    [id |-> id, email |-> email, fullName |-> fullName,
     username |-> SubSeq(email, 1, 1), phoneNumber |-> <<>>,
     isAdmin |-> FALSE, isVerified |-> TRUE, balance |-> 0,
     notifications |-> <<>>]

MkTrx(id, userId, type, status) ==
    [id |-> id, userId |-> userId, type |-> type, status |-> status]

SearchUsers ==
    LET u1 == MkUser(<<"u", "1">>, <<"j", "@", "x">>, <<"J", " ", "D">>)
        u2 == MkUser(<<"u", "2">>, <<"d", "@", "x">>, <<"D">>)
    IN  {<<>>, <<u1>>, <<u2, u1>>}

SearchTransactions ==
    LET t1 == MkTrx(<<"T", "1">>, <<"u", "1">>, "DEPOSIT", "PENDING")
        t2 == MkTrx(<<"T", "2">>, <<"u", "2">>, "WITHDRAWAL", "SUCCESS")
        t3 == MkTrx(<<"T", "3">>, <<"u", "3">>, "TRANSFER", "SUCCESS")
    IN  {<<>>, <<t1>>, <<t1, t2>>, <<t3, t2, t1>>}

SearchAlphabet == {"j", "J", "d", " ", "1", "x"}

SearchStrings == StringsUpTo(SearchAlphabet, MaxSearchLen)

\* The console before any data is loaded.
SearchIdle ==
    /\ users = <<>>
    /\ transactions = <<>>
    /\ filteredTransactions = <<>>
    /\ trxSearch = <<>>

\* The Settings tab with no bank account at all.
BankIdle ==
    /\ bankHeap = <<>>
    /\ companyBankInfoList = <<>>
    /\ bankList = <<>>
    /\ bankOp = "none"

\* The remote service with no account and no profile row.
GatewayIdle ==
    /\ accounts = {}
    /\ profiles = <<>>
    /\ last = [op |-> "none"]

\* The console with the balance modal closed and no handler running, and no
\* remote transaction.
\* The create-user form as useState and the reset after a success set it.
EmptyCreateData ==
    [fullName |-> <<>>, email |-> <<>>, phoneNumber |-> <<>>, password |-> <<>>,
     balance |-> <<"1", "3", "0", "0", "0", "0", "0", "0">>,
     isAdmin |-> FALSE, isVerified |-> TRUE]

PanelIdle ==
    /\ txs = <<>>
    /\ isBalanceModalOpen = FALSE
    /\ selectedUserForBalance = None
    /\ balanceAmount = <<>>
    /\ balanceOperation = "add"
    /\ tasks = <<>>
    /\ step = [handler |-> "none"]
    /\ user = None
    /\ isCreateModalOpen = FALSE
    /\ createData = EmptyCreateData
    /\ createError = None

InitSearch ==
    /\ BankIdle
    /\ GatewayIdle
    /\ PanelIdle
    /\ users \in SearchUsers
    /\ transactions \in SearchTransactions
    /\ trxSearch = <<>>
    /\ filteredTransactions = FilterTransactions(trxSearch, transactions, users)

\* onChange of the search box: setTrxSearch(e.target.value), then the effect.
SetTrxSearch(s) ==
    /\ trxSearch' = s
    /\ filteredTransactions' = FilterTransactions(s, transactions, users)
    /\ UNCHANGED <<users, transactions, bankVars, gatewayVars, panelVars>>

NextSearch == \E s \in SearchStrings : SetTrxSearch(s)

SpecSearch == InitSearch /\ [][NextSearch]_vars

(***************************************************************************)
(* C7: transaction search.                                                 *)
(***************************************************************************)
Range(s) == {s[i] : i \in 1..Len(s)}

\* s equals, ignoring case, some substring of field.
EqualsSubstringIgnoringCase(field, s) ==
    \E i \in 1..(Len(field) + 1), j \in 0..Len(field) :
        ToLowerCase(SubSeq(field, i, j)) = ToLowerCase(s)

\* s is a substring of the id, the owner id, the owner's email or the owner's
\* full name of t.
MatchesAField(t, s) ==
    \/ EqualsSubstringIgnoringCase(t.id, s)
    \/ EqualsSubstringIgnoringCase(t.userId, s)
    \/ \E i \in 1..Len(users) :
            /\ users[i].id = t.userId
            /\ \/ EqualsSubstringIgnoringCase(users[i].email, s)
               \/ EqualsSubstringIgnoringCase(users[i].fullName, s)

\* C7 as stated: the empty search yields the unfiltered list, a search that
\* is a substring of a field of a transaction includes it, and a search that
\* matches no field of any transaction yields the empty list.
C7_AsStated ==
    /\ (trxSearch = <<>> => filteredTransactions = transactions)
    /\ \A t \in Range(transactions) :
            MatchesAField(t, trxSearch) => t \in Range(filteredTransactions)
    /\ ((\A t \in Range(transactions) : ~MatchesAField(t, trxSearch))
            => filteredTransactions = <<>>)

\* C7 amended: as C7, but a search string of whitespace only is treated as
\* the empty search (the unfiltered list), so "no match yields the empty
\* list" holds only of a search string with a non-whitespace character.
\* The result holds only loaded transactions.
C7_SearchFilter ==
    /\ (Trim(trxSearch) = <<>> => filteredTransactions = transactions)
    /\ \A t \in Range(transactions) :
            MatchesAField(t, trxSearch) => t \in Range(filteredTransactions)
    /\ ((/\ Trim(trxSearch) # <<>>
         /\ \A t \in Range(transactions) : ~MatchesAField(t, trxSearch))
            => filteredTransactions = <<>>)
    /\ Range(filteredTransactions) \subseteq Range(transactions)

\* A search typed in upper case that keeps some transactions and drops others.
C7_Witness ==
    /\ Trim(trxSearch) # <<>>
    /\ ToLowerCase(trxSearch) # trxSearch
    /\ filteredTransactions # <<>>
    /\ Len(filteredTransactions) < Len(transactions)

(***************************************************************************)
(* The Settings tab: the company bank-account list.  A CompanyBankInfo is  *)
(* a JavaScript object, held by reference: the lists hold references and   *)
(* bankHeap holds what each reference points to.  Arrays are never changed *)
(* in place by this code (spread, filter and the setters make new arrays), *)
(* so a list is the sequence of its elements' references.                  *)
(***************************************************************************)
BankRefs == 1..MaxBanks

BankFields == {"bankName", "accountNumber", "accountHolderName"}

\* What the text inputs of the Settings tab can deliver.
BankValues == {"", "B"}

\* The objects still referenced by one of the two lists.
Reachable(heap, shared, local) ==
    [r \in (Range(shared) \cup Range(local)) \cap DOMAIN heap |-> heap[r]]

\* The list as a deep value: what a reader of the list sees.
Contents(heap, list) == [i \in 1..Len(list) |-> heap[list[i]]]

InitialBanks ==
    LET b == [bankName |-> "B", accountNumber |-> "B", accountHolderName |-> "B"]
    IN  {[r \in 1..n |-> b] : n \in 0..MaxBanks}

\* useState(companyBankInfoList) and the effect setBankList(companyBankInfoList):
\* the local list starts as the shared array itself.
InitBank ==
    /\ SearchIdle
    /\ GatewayIdle
    /\ PanelIdle
    /\ bankHeap \in InitialBanks
    /\ companyBankInfoList = [i \in DOMAIN bankHeap |-> i]
    /\ bankList = companyBankInfoList
    /\ bankOp = "none"

\* A copy of the list whose element at index is a fresh object with the field
\* replaced would leave the shared objects alone; the code writes the field into
\* the object the copied array still shares with the original.
handleBankChange(index, field, value) ==
    /\ index \in 1..Len(bankList)
    /\ bankHeap' = [bankHeap EXCEPT ![bankList[index]][field] = value]
    /\ bankList' = bankList
    /\ bankOp' = "handleBankChange"
    /\ UNCHANGED companyBankInfoList

addBank ==
    /\ \E r \in BankRefs :
        /\ r \notin DOMAIN bankHeap
        /\ \A q \in BankRefs \ DOMAIN bankHeap : r <= q
        /\ bankHeap' = [x \in DOMAIN bankHeap \cup {r} |->
                            IF x = r
                                THEN [bankName |-> "", accountNumber |-> "",
                                      accountHolderName |-> ""]
                                ELSE bankHeap[x]]
        /\ bankList' = Append(bankList, r)
    /\ bankOp' = "addBank"
    /\ UNCHANGED companyBankInfoList

removeBank(index) ==
    /\ index \in 1..Len(bankList)
    /\ LET updatedList == [i \in 1..(Len(bankList) - 1) |->
                              IF i < index THEN bankList[i] ELSE bankList[i + 1]]
       IN  /\ bankList' = updatedList
           /\ bankHeap' = Reachable(bankHeap, companyBankInfoList, updatedList)
    /\ bankOp' = "removeBank"
    /\ UNCHANGED companyBankInfoList

\* setCompanyBankInfoList(bankList), then the effect on companyBankInfoList sets
\* the local list to the shared one.
handleUpdateBankInfo ==
    /\ companyBankInfoList' = bankList
    /\ bankList' = bankList
    /\ bankHeap' = Reachable(bankHeap, bankList, bankList)
    /\ bankOp' = "handleUpdateBankInfo"

NextBank ==
    \/ \E i \in 1..MaxBanks, f \in BankFields, v \in BankValues :
            handleBankChange(i, f, v) /\ UNCHANGED <<searchVars, gatewayVars, panelVars>>
    \/ addBank /\ UNCHANGED <<searchVars, gatewayVars, panelVars>>
    \/ \E i \in 1..MaxBanks : removeBank(i) /\ UNCHANGED <<searchVars, gatewayVars, panelVars>>
    \/ handleUpdateBankInfo /\ UNCHANGED <<searchVars, gatewayVars, panelVars>>

SpecBank == InitBank /\ [][NextBank]_vars

(***************************************************************************)
(* C3: the shared bank list changes only on Save All Changes.              *)
(***************************************************************************)
SharedBanks == Contents(bankHeap, companyBankInfoList)

LocalBanks == Contents(bankHeap, bankList)

\* C3: a step of handleBankChange, addBank or removeBank leaves the shared
\* companyBankInfoList unchanged, the contents of its entries included, and a
\* step of handleUpdateBankInfo sets it to the entire local list.
C3_SharedListOnlyOnSave ==
    [][/\ (bankOp' # "handleUpdateBankInfo" => SharedBanks' = SharedBanks)
       /\ (bankOp' = "handleUpdateBankInfo" => SharedBanks' = LocalBanks)]_vars

(***************************************************************************)
(* The auth/profile gateway (services/authService.ts) and the remote       *)
(* service it calls.  A profile row is a function from the columns it has  *)
(* a value for; a column that is NULL is not in its DOMAIN.                *)
(***************************************************************************)
DigitChar(n) == <<"0", "1", "2", "3", "4", "5", "6", "7", "8", "9">>[n + 1]

\* The id the account service gives its n-th account.
UserIdOf(n) == <<"u", DigitChar(n)>>

Has(r, f) == f \in DOMAIN r

\* r[col] || dflt for a string, a boolean and a number: the empty string,
\* false, 0 and a missing value are falsy.
StrOr(r, col, dflt) == IF Has(r, col) /\ r[col] # <<>> THEN r[col] ELSE dflt

BoolOr(r, col, dflt) == IF Has(r, col) /\ r[col] THEN TRUE ELSE dflt

NumOr(r, col, dflt) == IF Has(r, col) /\ r[col] # 0 THEN r[col] ELSE dflt

\* s.split('@')[0]
BeforeAt(s) ==
    LET at == {i \in 1..Len(s) : s[i] = "@"}
    IN  IF at = {} THEN s
        ELSE SubSeq(s, 1, (CHOOSE i \in at : \A j \in at : i <= j) - 1)

mapProfileToUser(profile, authUser) ==
    LET fields == {"id", "email", "fullName", "username", "phoneNumber",
                   "isAdmin", "isVerified", "balance", "notifications"}
                  \cup (IF Has(profile, "profile_picture_url")
                            THEN {"profilePictureUrl"} ELSE {})
    IN  [f \in fields |->
            CASE f = "id" -> authUser.id
              [] f = "email" -> StrOr(profile, "email", StrOr(authUser, "email", <<>>))
              [] f = "fullName" -> StrOr(profile, "full_name", <<>>)
              [] f = "username" -> StrOr(profile, "username", <<>>)
              [] f = "phoneNumber" -> StrOr(profile, "phone_number", <<>>)
              [] f = "isAdmin" -> BoolOr(profile, "is_admin", FALSE)
              [] f = "isVerified" -> BoolOr(profile, "is_verified", FALSE)
              [] f = "balance" -> NumOr(profile, "balance", 0)
              [] f = "notifications" -> <<>>
              [] f = "profilePictureUrl" -> profile.profile_picture_url]

\* The columns getAllUsers copies as they are, and the User field of each.
CopiedColumns ==
    [id |-> "id", full_name |-> "fullName", username |-> "username",
     phone_number |-> "phoneNumber", is_admin |-> "isAdmin",
     is_verified |-> "isVerified", balance |-> "balance",
     profile_picture_url |-> "profilePictureUrl"]

\* The arrow function of profiles.map in getAllUsers: a column with no value
\* gives a field with no value (it is not in the DOMAIN of the User).
ListedUser(p) ==
    LET copied == {c \in DOMAIN CopiedColumns : Has(p, c)}
        fields == {"email", "notifications"} \cup {CopiedColumns[c] : c \in copied}
    IN  [f \in fields |->
            CASE f = "email" -> StrOr(p, "email", <<>>)
              [] f = "notifications" -> <<>>
              [] OTHER -> p[CHOOSE c \in copied : CopiedColumns[c] = f]]

\* profiles.select('*'): the query fails or returns every row.
getAllUsers(ok) ==
    /\ last' = [op |-> "getAllUsers", ok |-> ok, rows |-> profiles,
                result |-> IF ok
                              THEN [i \in 1..Len(profiles) |-> ListedUser(profiles[i])]
                              ELSE <<>>]
    /\ UNCHANGED <<accounts, profiles>>

\* upsert: the row with this id takes the given columns and keeps its others;
\* with no such row, the row is inserted.
Upsert(table, row) ==
    IF \E i \in 1..Len(table) : table[i].id = row.id
        THEN [i \in 1..Len(table) |->
                 IF table[i].id = row.id
                     THEN [c \in DOMAIN table[i] \cup DOMAIN row |->
                              IF c \in DOMAIN row THEN row[c] ELSE table[i][c]]
                     ELSE table[i]]
        ELSE Append(table, row)

\* What auth.signUp can answer: an account with this email exists, or the
\* service refuses, cannot be reached, or answers with no user.
SignUpOutcomes(email) ==
    IF \E a \in accounts : a.email = email
        THEN {"error", "throw"}
        ELSE {"ok", "error", "nouser", "throw"}

\* register goes on to the profile write whatever signUp answered.
ProceedsAfterSignUpAlways(signUp) == TRUE

\* register goes on to the profile write: no authError and a user in the data.
ProceedsAfterSignUp(signUp) == signUp = "ok"

\* register returns the mapped user whatever the profile write answered.
ReturnsUserAfterUpsertAlways(upsert) == TRUE

\* register returns the mapped user: the upsert did not throw and answered
\* with no profileError.
ReturnsUserAfterUpsert(upsert) == upsert = "ok"

register(userData, signUp, upsert) ==
    LET userId == UserIdOf(Cardinality(accounts) + 1)
        authUser == [id |-> userId, email |-> userData.email]
        row == [id |-> userId, email |-> userData.email,
                full_name |-> userData.fullName,
                username |-> ToLowerCase(BeforeAt(userData.email)),
                phone_number |-> userData.phoneNumber,
                is_admin |-> FALSE, is_verified |-> FALSE, balance |-> 13000000]
        written == Upsert(profiles, row)
        profileData == CHOOSE r \in Range(written) : r.id = userId
    IN  /\ signUp \in SignUpOutcomes(userData.email)
        /\ signUp = "ok" => Cardinality(accounts) < MaxUsers
        /\ accounts' = IF signUp = "ok" THEN accounts \cup {authUser} ELSE accounts
        /\ profiles' = IF ProceedsAfterSignUp(signUp) /\ upsert = "ok"
                           THEN written ELSE profiles
        /\ last' =
            [op |-> "register", email |-> userData.email, signUp |-> signUp,
             upsert |-> IF signUp = "ok" THEN upsert ELSE "none",
             user |-> IF signUp = "ok" /\ ReturnsUserAfterUpsert(upsert)
                         THEN Some(mapProfileToUser(profileData, authUser))
                         ELSE None,
             error |->
                CASE signUp = "error" -> Some("authError.message")
                  [] signUp = "nouser" -> Some("Gagal membuat akun.")
                  [] signUp = "throw" -> Some("e.message")
                  [] upsert = "error"
                        -> Some("Autentikasi sukses, tapi profil gagal disimpan.")
                  [] upsert = "throw" -> Some("e.message")
                  [] OTHER -> None]

\* The password of every account of the model.
Password == <<"p">>

\* What auth.signInWithPassword can answer: with an account of this email and
\* its password, a user (or an answer with no user); in any case an error or
\* a failure to reach the service.
SignInOutcomes(identifier, passwordAttempt) ==
    IF (\E a \in accounts : a.email = identifier) /\ passwordAttempt = Password
        THEN {"ok", "error", "nouser", "throw"}
        ELSE {"error", "throw"}

\* What select('*').eq('id', id).single() can answer: the row when there is
\* one; profileError when there is none or the query fails; or it throws.
LookupOutcomes(id) ==
    IF \E i \in 1..Len(profiles) : profiles[i].id = id
        THEN {"ok", "error", "throw"}
        ELSE {"error", "throw"}

\* login goes on to the profile lookup whatever the sign-in answered.
LoginProceedsAlways(signIn) == TRUE

\* login goes on to the profile lookup: no authError and a user in the data.
LoginProceeds(signIn) == signIn = "ok"

\* login returns the mapped user whatever the lookup answered.
LoginReturnsUserAlways(lookup) == TRUE

\* login returns the mapped user: the lookup did not throw and answered with
\* no profileError.
LoginReturnsUser(lookup) == lookup = "ok"

\* A select().single() that answered with data: null.
NoRow == [c \in {} |-> <<>>]

login(identifier, passwordAttempt, signIn, lookup) ==
    LET known == {a \in accounts : a.email = identifier}
        authUser == IF known # {} THEN CHOOSE a \in known : TRUE
                    ELSE [id |-> <<>>, email |-> identifier]
        rows == {i \in 1..Len(profiles) : profiles[i].id = authUser.id}
        profileData == IF rows # {} THEN profiles[CHOOSE i \in rows : TRUE] ELSE NoRow
    IN  /\ signIn \in SignInOutcomes(identifier, passwordAttempt)
        /\ lookup \in LookupOutcomes(authUser.id)
        /\ UNCHANGED <<accounts, profiles>>
        /\ last' =
            [op |-> "login", identifier |-> identifier, signIn |-> signIn,
             lookup |-> IF signIn = "ok" THEN lookup ELSE "none",
             user |-> IF LoginProceeds(signIn) /\ LoginReturnsUser(lookup)
                         THEN Some(mapProfileToUser(profileData, authUser))
                         ELSE None,
             error |->
                CASE signIn = "error" -> Some("authError.message")
                  [] signIn = "nouser" -> Some("User tidak ditemukan.")
                  [] signIn = "throw" -> Some("e.message")
                  [] lookup = "error" -> Some("Profil tidak ditemukan di database.")
                  [] lookup = "throw" -> Some("e.message")
                  [] OTHER -> None]

\* mapProfileToUser maps a null profile as it maps a row with no column.
ThrowsOnNullProfileNever(profileData) == FALSE

\* mapProfileToUser(profileData, authUser) reads profile.email first: with a
\* null profile it throws a TypeError.
ThrowsOnNullProfile(profileData) == profileData = None

\* adminCreateUser: signUp, then insert(...).select().single(), whose error is
\* not read; the try block spans the body, so whatever is thrown ends in the
\* catch, which returns null.
adminCreateUser(userData, signUp, insert) ==
    LET userId == UserIdOf(Cardinality(accounts) + 1)
        authUser == [id |-> userId, email |-> userData.email]
        row == [id |-> userId, email |-> userData.email,
                full_name |-> userData.fullName,
                username |-> BeforeAt(userData.email),
                phone_number |-> userData.phoneNumber,
                is_admin |-> BoolOr(userData, "isAdmin", FALSE),
                is_verified |-> BoolOr(userData, "isVerified", FALSE),
                balance |-> NumOr(userData, "balance", 0)]
        profileData == IF insert = "ok" THEN Some(row) ELSE None
        thrown == \/ signUp = "throw"
                  \/ signUp = "ok" /\ insert = "throw"
                  \/ signUp = "ok" /\ ThrowsOnNullProfile(profileData)
    IN  /\ signUp \in SignUpOutcomes(userData.email)
        /\ signUp = "ok" => Cardinality(accounts) < MaxUsers
        /\ accounts' = IF signUp = "ok" THEN accounts \cup {authUser} ELSE accounts
        /\ profiles' = IF signUp = "ok" /\ insert = "ok"
                           THEN Append(profiles, row) ELSE profiles
        /\ last' =
            [op |-> "adminCreateUser", email |-> userData.email, signUp |-> signUp,
             insert |-> IF signUp = "ok" THEN insert ELSE "none",
             result |->
                CASE signUp \in {"error", "nouser"} -> None
                  [] thrown -> None
                  [] OTHER -> Some(mapProfileToUser(
                                IF profileData = None THEN NoRow ELSE profileData[1],
                                authUser))]

(***************************************************************************)
(* The gateway specification: what the service holds at the start, and the *)
(* calls of register and getAllUsers against it.                           *)
(***************************************************************************)
ExistingEmail == <<"j", "@", "x">>

\* A row with every column but the picture, and a row that has no value for
\* the flags and the balance.
FullRow ==
    [id |-> UserIdOf(1), email |-> ExistingEmail, full_name |-> <<"J">>,
     username |-> <<"j">>, phone_number |-> <<"8">>, is_admin |-> TRUE,
     is_verified |-> TRUE, balance |-> 100000]

BareRow ==
    [id |-> UserIdOf(1), email |-> ExistingEmail, full_name |-> <<"J">>,
     username |-> <<"j">>, phone_number |-> <<"8">>]

FirstAccount == [id |-> UserIdOf(1), email |-> ExistingEmail]

InitialService ==
    {<<{}, <<>>>>,
     <<{FirstAccount}, <<>>>>,
     <<{FirstAccount}, <<FullRow>>>>,
     <<{FirstAccount}, <<BareRow>>>>}

RegisterInputs ==
    {[email |-> e, fullName |-> n, phoneNumber |-> <<"8">>] :
        e \in {ExistingEmail, <<"D", "@", "x">>}, n \in {<<"J">>, <<"D">>}}

LoginIdentifiers == {ExistingEmail, <<"D", "@", "x">>}

AdminCreateInputs ==
    {[email |-> e, fullName |-> <<"D">>, phoneNumber |-> <<"8">>,
      isAdmin |-> a, isVerified |-> FALSE, balance |-> b] :
        e \in {ExistingEmail, <<"D", "@", "x">>}, a \in BOOLEAN, b \in {0, 5}}

Init ==
    /\ SearchIdle
    /\ BankIdle
    /\ PanelIdle
    /\ \E s \in InitialService :
        /\ accounts = s[1]
        /\ profiles = s[2]
    /\ last = [op |-> "none"]

Next ==
    \/ \E d \in RegisterInputs, signUp \in {"ok", "error", "nouser", "throw"},
          upsert \in {"ok", "error", "throw"} :
            register(d, signUp, upsert) /\ UNCHANGED <<searchVars, bankVars, panelVars>>
    \/ \E d \in AdminCreateInputs, signUp \in {"ok", "error", "nouser", "throw"},
          insert \in {"ok", "error", "throw"} :
            adminCreateUser(d, signUp, insert)
                /\ UNCHANGED <<searchVars, bankVars, panelVars>>
    \/ \E ok \in BOOLEAN :
            getAllUsers(ok) /\ UNCHANGED <<searchVars, bankVars, panelVars>>
    \/ \E identifier \in LoginIdentifiers, passwordAttempt \in {Password, <<"q">>},
          signIn \in {"ok", "error", "nouser", "throw"},
          lookup \in {"ok", "error", "throw"} :
            login(identifier, passwordAttempt, signIn, lookup)
                /\ UNCHANGED <<searchVars, bankVars, panelVars>>

Spec == Init /\ [][Next]_vars

(***************************************************************************)
(* C1: getAllUsers and missing columns.                                    *)
(***************************************************************************)

\* C1: in the result of a successful getAllUsers, the User of a row with no
\* is_admin has isAdmin = false, of a row with no is_verified has
\* isVerified = false, and of a row with no balance has balance = 0.
C1_ListDefaults ==
    (last.op = "getAllUsers" /\ last.ok) =>
        \A i \in 1..Len(last.rows) :
            LET row == last.rows[i]
                u == last.result[i]
            IN  /\ ~Has(row, "is_admin") => (Has(u, "isAdmin") /\ u.isAdmin = FALSE)
                /\ ~Has(row, "is_verified")
                        => (Has(u, "isVerified") /\ u.isVerified = FALSE)
                /\ ~Has(row, "balance") => (Has(u, "balance") /\ u.balance = 0)

(***************************************************************************)
(* C10: register when the account cannot be created.                       *)
(***************************************************************************)

\* C10: a register call whose account creation failed returns user = null and
\* an error, and leaves the profiles table as it was.
C10_RegisterAuthFailure ==
    [][(last'.op = "register" /\ last'.signUp # "ok") =>
            /\ last'.user = None
            /\ last'.error # None
            /\ profiles' = profiles]_vars

\* register was called with an email the account service already holds, and
\* reported the error.
C10_Witness ==
    /\ last.op = "register"
    /\ last.signUp = "error"
    /\ \E a \in accounts : a.email = last.email
    /\ last.error # None
    /\ profiles # <<>>

(***************************************************************************)
(* C11: register when the account is created and the profile write fails. *)
(***************************************************************************)

\* C11: a register call whose account creation succeeded and whose profile
\* write failed returns user = null and an error; the new account is held by
\* the account service, no account was removed, and the profiles table is as
\* it was, with no row for the new account.
C11_RegisterPartialFailure ==
    [][(last'.op = "register" /\ last'.signUp = "ok" /\ last'.upsert # "ok") =>
            /\ last'.user = None
            /\ last'.error # None
            /\ accounts \subseteq accounts'
            /\ \E a \in accounts' \ accounts :
                    /\ a.email = last'.email
                    /\ \A i \in 1..Len(profiles') : profiles'[i].id # a.id
            /\ profiles' = profiles]_vars

\* register created the account of a new email, the upsert answered with an
\* error, and the account has no profile row.
C11_Witness ==
    /\ last.op = "register"
    /\ last.signUp = "ok"
    /\ last.upsert = "error"
    /\ last.user = None
    /\ last.error = Some("Autentikasi sukses, tapi profil gagal disimpan.")
    /\ \E a \in accounts :
            /\ a.email = last.email
            /\ \A i \in 1..Len(profiles) : profiles[i].id # a.id

(***************************************************************************)
(* C12: what adminCreateUser returns.                                      *)
(***************************************************************************)

\* C12: adminCreateUser returns a User exactly when the account creation and
\* the profile insertion both succeeded, and then it is the inserted row
\* mapped, under the new account's id; on an account creation error, no
\* account user, a failed insertion or an exception it returns null.
C12_AdminCreateResult ==
    [][last'.op = "adminCreateUser" =>
            /\ last'.result # None <=> (last'.signUp = "ok" /\ last'.insert = "ok")
            /\ last'.result # None =>
                    LET u == last'.result[1]
                        row == profiles'[Len(profiles')]
                    IN  /\ Len(profiles') = Len(profiles) + 1
                        /\ row.id = u.id
                        /\ \E a \in accounts' \ accounts : a.id = u.id
                        /\ u.email = row.email
                        /\ u.fullName = row.full_name
                        /\ u.isAdmin = row.is_admin
                        /\ u.balance = row.balance]_vars

\* The account was created, the insertion failed, and adminCreateUser
\* returned null.
C12_Witness ==
    /\ last.op = "adminCreateUser"
    /\ last.signUp = "ok"
    /\ last.insert = "error"
    /\ last.result = None
    /\ \E a \in accounts : a.email = last.email

(***************************************************************************)
(* C16, C17: what login and register return.                               *)
(***************************************************************************)

\* The account the identifier and the password attempt belong to, if any.
ValidCredentials(identifier, passwordAttempt) ==
    (\E a \in accounts : a.email = identifier) /\ passwordAttempt = Password

\* C16: login returns a User only when the sign-in succeeded and the profiles
\* table holds a row for the signed-in account, and then the User is that row
\* mapped; when no account has the identifier, or the sign-in failed, or the
\* sign-in succeeded and the profile lookup failed, it returns user = null
\* with an error message; it changes neither accounts nor profiles.
C16_LoginResult ==
    [][last'.op = "login" =>
        LET known == {a \in accounts : a.email = last'.identifier}
        IN  /\ last'.user # None =>
                /\ last'.signIn = "ok"
                /\ \E a \in known : \E i \in 1..Len(profiles) :
                        /\ profiles[i].id = a.id
                        /\ last'.user[1] = mapProfileToUser(profiles[i], a)
            /\ (known = {} \/ last'.signIn # "ok" \/ last'.lookup # "ok") =>
                /\ last'.user = None
                /\ last'.error # None
            /\ (last'.signIn = "ok" /\ last'.lookup = "error") =>
                last'.error = Some("Profil tidak ditemukan di database.")
            /\ accounts' = accounts
            /\ profiles' = profiles]_vars

\* The sign-in succeeded for an account that has no profile row, and login
\* returned the profile error.
C16_Witness ==
    /\ last.op = "login"
    /\ last.signIn = "ok"
    /\ last.lookup = "error"
    /\ last.user = None
    /\ last.error = Some("Profil tidak ditemukan di database.")
    /\ \E a \in accounts :
            /\ a.email = last.identifier
            /\ \A i \in 1..Len(profiles) : profiles[i].id # a.id

\* C17: in every result of login and of register, user is non-null exactly
\* when error is null.
C17_UserXorError ==
    last.op \in {"login", "register"} => (last.user # None <=> last.error = None)

\* login returned a user and no error.
C17_Witness ==
    /\ last.op = "login"
    /\ last.user # None
    /\ last.error = None

(***************************************************************************)
(* updateUserInfo.  Its effect depends only on the table and on the        *)
(* partial record, so its specification draws the table at the start and   *)
(* applies one call to it.                                                 *)
(***************************************************************************)

\* The column of each User field updateUserInfo reads.
UpdateColumn ==
    [fullName |-> "full_name", phoneNumber |-> "phone_number",
     profilePictureUrl |-> "profile_picture_url", isVerified |-> "is_verified"]

TextFields == {"fullName", "phoneNumber", "profilePictureUrl"}

\* The updates object with every field filled in only when truthy.
UpdatesAllTruthy(updatedData) ==
    LET written == {f \in TextFields : Has(updatedData, f) /\ updatedData[f] # <<>>}
                   \cup {f \in {"isVerified"} :
                            Has(updatedData, f) /\ updatedData[f]}
    IN  [c \in {UpdateColumn[f] : f \in written} |->
            updatedData[CHOOSE f \in written : UpdateColumn[f] = c]]

\* The updates object: a text field is copied when truthy, isVerified when it
\* is not undefined.
Updates(updatedData) ==
    LET written == {f \in TextFields : Has(updatedData, f) /\ updatedData[f] # <<>>}
                   \cup {f \in {"isVerified"} : Has(updatedData, f)}
    IN  [c \in {UpdateColumn[f] : f \in written} |->
            updatedData[CHOOSE f \in written : UpdateColumn[f] = c]]

\* The update with no .eq('id', id): every row takes the given columns.
UpdateEveryRow(table, id, updates) ==
    [i \in 1..Len(table) |->
        [c \in DOMAIN table[i] \cup DOMAIN updates |->
            IF c \in DOMAIN updates THEN updates[c] ELSE table[i][c]]]

\* profiles.update(updates).eq('id', id): every row with that id takes the
\* given columns.
UpdateWhereId(table, id, updates) ==
    [i \in 1..Len(table) |->
        IF table[i].id = id
            THEN [c \in DOMAIN table[i] \cup DOMAIN updates |->
                     IF c \in DOMAIN updates THEN updates[c] ELSE table[i][c]]
            ELSE table[i]]

\* The result of the awaited update is not looked at: when the remote update
\* fails (applied = FALSE) the table is as it was and the call returns all the
\* same.
updateUserInfo(updatedData, applied) ==
    IF ~Has(updatedData, "id") \/ updatedData.id = <<>>
        THEN /\ last' = [op |-> "updateUserInfo", data |-> updatedData,
                         called |-> FALSE, applied |-> FALSE, before |-> profiles]
             /\ UNCHANGED <<accounts, profiles>>
        ELSE /\ profiles' = IF applied
                                THEN UpdateWhereId(profiles, updatedData.id,
                                                   Updates(updatedData))
                                ELSE profiles
             /\ last' = [op |-> "updateUserInfo", data |-> updatedData,
                         called |-> TRUE, applied |-> applied,
                         updates |-> Updates(updatedData), before |-> profiles]
             /\ UNCHANGED accounts

SecondAccount == [id |-> UserIdOf(2), email |-> <<"d", "@", "x">>]

SecondRow ==
    [id |-> UserIdOf(2), email |-> <<"d", "@", "x">>, full_name |-> <<"D">>,
     username |-> <<"d">>, phone_number |-> <<>>, is_admin |-> FALSE,
     is_verified |-> FALSE, balance |-> 0, profile_picture_url |-> <<"p">>]

UpdateTables == {<<FullRow>>, <<FullRow, SecondRow>>, <<BareRow, SecondRow>>}

Opt(S) == {None} \cup {Some(v) : v \in S}

\* The partial record with the fields that are given (not None).
PartialUser(id, fullName, phoneNumber, profilePictureUrl, isVerified) ==
    LET given == [id |-> id, fullName |-> fullName, phoneNumber |-> phoneNumber,
                  profilePictureUrl |-> profilePictureUrl,
                  isVerified |-> isVerified]
    IN  [f \in {g \in DOMAIN given : given[g] # None} |-> given[f][1]]

\* Fields of a User that updateUserInfo does not read.
OtherUserFields ==
    [email |-> <<"z", "@", "x">>, username |-> <<"z">>, isAdmin |-> TRUE,
     balance |-> 7]

\* The partial records: each field missing, falsy or truthy, with and without
\* the fields that updateUserInfo does not read.
UpdateInputs ==
    LET read == {PartialUser(id, n, ph, pic, v) :
                    id \in Opt({<<>>, UserIdOf(1), UserIdOf(2)}),
                    n \in Opt({<<>>, <<"N">>}),
                    ph \in Opt({<<>>, <<"9">>}),
                    pic \in Opt({<<>>, <<"q">>}),
                    v \in Opt(BOOLEAN)}
    IN  read \cup {d @@ OtherUserFields : d \in read}

InitUpdate ==
    /\ SearchIdle
    /\ BankIdle
    /\ PanelIdle
    /\ profiles \in UpdateTables
    /\ accounts = {FirstAccount, SecondAccount}
    /\ last = [op |-> "none"]

NextUpdate ==
    \E d \in UpdateInputs, applied \in BOOLEAN :
        /\ last.op = "none"
        /\ updateUserInfo(d, applied)
        /\ UNCHANGED <<searchVars, bankVars, panelVars>>

SpecUpdate == InitUpdate /\ [][NextUpdate]_vars

(***************************************************************************)
(* C2: which fields updateUserInfo writes.                                 *)
(***************************************************************************)

\* C2: in an updateUserInfo call, each of full_name, phone_number,
\* profile_picture_url and is_verified is written only if its field is present
\* and truthy in the partial record.
C2_OnlyTruthyWritten ==
    (last.op = "updateUserInfo" /\ last.called) =>
        \A f \in DOMAIN UpdateColumn :
            Has(last.updates, UpdateColumn[f]) =>
                /\ Has(last.data, f)
                /\ IF f = "isVerified" THEN last.data[f] ELSE last.data[f] # <<>>

\* C2 amended: full_name, phone_number and profile_picture_url are written
\* exactly when the field is present and truthy; is_verified is written
\* exactly when isVerified is present, false included; what is written is the
\* given value, and when the update is applied the row with the given id
\* holds it.
C2_SparseUpdate ==
    (last.op = "updateUserInfo" /\ last.called) =>
        /\ DOMAIN last.updates \subseteq {UpdateColumn[f] : f \in DOMAIN UpdateColumn}
        /\ \A f \in TextFields :
                Has(last.updates, UpdateColumn[f])
                    <=> (Has(last.data, f) /\ last.data[f] # <<>>)
        /\ Has(last.updates, "is_verified") <=> Has(last.data, "isVerified")
        /\ \A f \in DOMAIN UpdateColumn :
                Has(last.updates, UpdateColumn[f]) =>
                    /\ last.updates[UpdateColumn[f]] = last.data[f]
                    /\ last.applied =>
                            \A i \in 1..Len(profiles) :
                                profiles[i].id = last.data.id =>
                                    profiles[i][UpdateColumn[f]] = last.data[f]

\* A call that gave an empty full name and isVerified = false: the row keeps
\* its full name and is no longer verified.
C2_Witness ==
    /\ last.op = "updateUserInfo"
    /\ last.called
    /\ last.applied
    /\ Has(last.data, "fullName") /\ last.data.fullName = <<>>
    /\ Has(last.data, "isVerified") /\ ~last.data.isVerified
    /\ \E i \in 1..Len(profiles) :
            /\ profiles[i].id = last.data.id
            /\ profiles[i].full_name = last.before[i].full_name
            /\ last.before[i].is_verified
            /\ ~profiles[i].is_verified

(***************************************************************************)
(* C19: what updateUserInfo leaves alone.                                  *)
(***************************************************************************)
WritableColumns == {"full_name", "phone_number", "profile_picture_url", "is_verified"}

\* C19: after an updateUserInfo call the table has the same rows in the same
\* order; a row whose id is not the given id is as it was; in the row with
\* the given id every column but full_name, phone_number,
\* profile_picture_url and is_verified is as it was (id, email, username,
\* is_admin and balance among them) and no other column appeared; the
\* accounts are as they were; and with no id in the partial record no remote
\* call is issued and the table is as it was.
C19_UpdateFrame ==
    last.op = "updateUserInfo" =>
        LET noId == ~Has(last.data, "id") \/ last.data.id = <<>>
        IN  /\ Len(profiles) = Len(last.before)
            /\ \A i \in 1..Len(profiles) :
                    LET b == last.before[i]
                        r == profiles[i]
                    IN  /\ (noId \/ b.id # last.data.id) => r = b
                        /\ \A c \in DOMAIN b \ WritableColumns :
                                c \in DOMAIN r /\ r[c] = b[c]
                        /\ (DOMAIN r \ DOMAIN b) \subseteq WritableColumns
            /\ accounts = {FirstAccount, SecondAccount}
            /\ noId => (~last.called /\ profiles = last.before)

\* A call with the id of the second of two rows, and with an email, a
\* username, an admin flag and a balance in the partial record, changed the
\* second row.
C19_Witness ==
    /\ last.op = "updateUserInfo"
    /\ last.called /\ last.applied
    /\ Len(profiles) = 2
    /\ last.data.id = profiles[2].id
    /\ Has(last.data, "balance") /\ Has(last.data, "isAdmin")
    /\ profiles[2] # last.before[2]
    /\ profiles[2].balance = last.before[2].balance
    /\ profiles[1] = last.before[1]

(***************************************************************************)
(* The console's async handlers.  A handler runs to its next await in one  *)
(* step; the remote call it awaits is then handled by the service          *)
(* (Backend) and, later, its answer resumes the handler (Resume).  Other   *)
(* handlers and UI events run in between.                                  *)
(***************************************************************************)
DigitValue(c) == CHOOSE n \in 0..9 : DigitChar(n) = c

\* The longest prefix of s made of decimal digits.
RECURSIVE DigitsPrefix(_)
DigitsPrefix(s) ==
    IF s # <<>> /\ Head(s) \in Digits
        THEN <<Head(s)>> \o DigitsPrefix(Tail(s))
        ELSE <<>>

RECURSIVE DecimalValue(_)
DecimalValue(ds) ==
    IF ds = <<>> THEN 0
    ELSE 10 * DecimalValue(SubSeq(ds, 1, Len(ds) - 1)) + DigitValue(ds[Len(ds)])

\* parseFloat that drops the sign.
ParseFloatUnsigned(s) ==
    LET t == TrimStart(s)
        body == IF t # <<>> /\ Head(t) \in {"-", "+"} THEN Tail(t) ELSE t
        ds == DigitsPrefix(body)
    IN  IF ds = <<>> THEN None ELSE Some(DecimalValue(ds))

\* parseFloat on strings of digits, signs, blanks and letters: leading
\* whitespace is skipped, then an optional sign and the longest run of digits
\* are read and the rest is ignored; None is NaN.  (Fractions, exponents and
\* "Infinity" are not among the modelled inputs.)
ParseFloat(s) ==
    LET t == TrimStart(s)
        negative == t # <<>> /\ Head(t) = "-"
        body == IF t # <<>> /\ Head(t) \in {"-", "+"} THEN Tail(t) ELSE t
        ds == DigitsPrefix(body)
    IN  IF ds = <<>> THEN None
        ELSE Some(IF negative THEN 0 - DecimalValue(ds) ELSE DecimalValue(ds))

\* The balance the 'add' and 'set' operations ask for.
NewBalance(current, amount, operation) ==
    IF operation = "add" THEN current + amount ELSE amount

\* The update that adds the value to the stored balance.
updateUserBalanceAdding(table, userId, newBalance) ==
    [i \in 1..Len(table) |->
        IF table[i].id = userId
            THEN [c \in DOMAIN table[i] \cup {"balance"} |->
                    IF c = "balance" THEN NumOr(table[i], "balance", 0) + newBalance
                    ELSE table[i][c]]
            ELSE table[i]]

\* The update with no .eq('id', userId): every row takes the balance.
updateUserBalanceEveryRow(table, userId, newBalance) ==
    [i \in 1..Len(table) |->
        [c \in DOMAIN table[i] \cup {"balance"} |->
            IF c = "balance" THEN newBalance ELSE table[i][c]]]

\* authService.updateUserBalance: the table after the update.
updateUserBalance(table, userId, newBalance) ==
    UpdateWhereId(table, userId, [balance |-> newBalance])

\* The context's adminUpdateUserBalance: the table after the call.
adminUpdateUserBalance(table, userId, amount, operation) ==
    IF \E i \in 1..Len(table) : table[i].id = userId
        THEN LET row == CHOOSE r \in Range(table) : r.id = userId
             IN  updateUserBalance(table, userId,
                    NewBalance(NumOr(row, "balance", 0), amount, operation))
        ELSE table

\* The context's updateDepositStatus / updateWithdrawalStatus: the
\* transactions after the call.
UpdateStatus(table, id, status) ==
    [i \in 1..Len(table) |->
        IF table[i].id = id THEN [table[i] EXCEPT !.status = status] ELSE table[i]]

\* A selector that offers every status for a DEPOSIT too.
StatusOptionsAll(type) ==
    IF type # "TRANSFER"
        THEN {"PENDING", "SUCCESS", "REJECTED", "CANCELLED", "FAILED"}
        ELSE {}

\* The <option>s of the status <select> of a transaction row.
StatusOptions(type) ==
    IF type # "TRANSFER"
        THEN {"PENDING", "SUCCESS", "REJECTED"}
             \cup (IF type = "WITHDRAWAL" THEN {"CANCELLED", "FAILED"} ELSE {})
        ELSE {}

\* handleStatusChange returns at once for every selection.
StatusUnchangedAlways(t, newStatus) == TRUE

\* handleStatusChange: t.status === newStatus
StatusUnchanged(t, newStatus) == t.status = newStatus

\* The status call of handleStatusChange, by the type of the row.
StatusCall(t, newStatus) ==
    IF t.type = "DEPOSIT"
        THEN Some([fn |-> "updateDepositStatus", id |-> t.id, status |-> newStatus])
    ELSE IF t.type = "WITHDRAWAL"
        THEN Some([fn |-> "updateWithdrawalStatus", id |-> t.id, status |-> newStatus])
    ELSE None

\* handleBalanceSubmit returns early only on an empty input.
BalanceSubmitReturnsOnEmpty(selected, amount) ==
    selected = None \/ amount = <<>>

\* handleBalanceSubmit: the two early returns.
BalanceSubmitReturns(selected, amount) ==
    \/ selected = None
    \/ amount = <<>>
    \/ ParseFloat(amount) = None

Idle == [pc |-> "idle"]

FirstFree(slot) ==
    /\ tasks[slot].pc = "idle"
    /\ \A j \in 1..(slot - 1) : tasks[j].pc # "idle"

\* The balance modal is rendered (with its overlay over the page).
ModalDisplayed == isBalanceModalOpen /\ selectedUserForBalance # None

\* loadData up to its first await.
LoadStarted(task) ==
    [task EXCEPT !.pc = "users_sent",
                 !.issued = Append(@, [fn |-> "getAllUsers"])]

openBalanceModal(i) ==
    /\ ~ModalDisplayed
    /\ i \in 1..Len(users)
    /\ selectedUserForBalance' = Some(users[i])
    /\ balanceAmount' = <<>>
    /\ balanceOperation' = "add"
    /\ isBalanceModalOpen' = TRUE
    /\ step' = [handler |-> "openBalanceModal"]
    /\ UNCHANGED <<searchVars, bankVars, gatewayVars, user, createVars, txs, tasks>>

setBalanceAmount(s) ==
    /\ ModalDisplayed
    /\ balanceAmount' = s
    /\ step' = [handler |-> "setBalanceAmount"]
    /\ UNCHANGED <<searchVars, bankVars, gatewayVars, user, createVars, txs, tasks,
                   isBalanceModalOpen,
                   selectedUserForBalance, balanceOperation>>

setBalanceOperation(o) ==
    /\ ModalDisplayed
    /\ balanceOperation' = o
    /\ step' = [handler |-> "setBalanceOperation"]
    /\ UNCHANGED <<searchVars, bankVars, gatewayVars, user, createVars, txs, tasks,
                   isBalanceModalOpen,
                   selectedUserForBalance, balanceAmount>>

\* The X and Cancel buttons of the modal: setIsBalanceModalOpen(false).
closeBalanceModal ==
    /\ ModalDisplayed
    /\ isBalanceModalOpen' = FALSE
    /\ step' = [handler |-> "closeBalanceModal"]
    /\ UNCHANGED <<searchVars, bankVars, gatewayVars, user, createVars, txs, tasks,
                   selectedUserForBalance,
                   balanceAmount, balanceOperation>>

\* The form's submit, up to the await of adminUpdateUserBalance.
handleBalanceSubmit ==
    /\ ModalDisplayed
    /\ IF BalanceSubmitReturns(selectedUserForBalance, balanceAmount)
          THEN /\ step' = [handler |-> "handleBalanceSubmit", outcome |-> "returned"]
               /\ UNCHANGED tasks
          ELSE \E slot \in 1..MaxHandlers :
               LET call == [fn |-> "adminUpdateUserBalance",
                            userId |-> selectedUserForBalance[1].id,
                            amount |-> ParseFloat(balanceAmount),
                            operation |-> balanceOperation]
               IN  /\ FirstFree(slot)
                   /\ tasks' = [tasks EXCEPT ![slot] =
                            [handler |-> "handleBalanceSubmit", pc |-> "update_sent",
                             call |-> call, issued |-> <<call>>,
                             input |-> balanceAmount, payload |-> <<>>]]
                   /\ step' = [handler |-> "handleBalanceSubmit", outcome |-> "called"]
    /\ UNCHANGED <<searchVars, bankVars, gatewayVars, user, createVars, txs, modalVars>>

\* onChange of the status <select> of the i-th rendered row, up to the first
\* await.
handleStatusChange(i, newStatus) ==
    /\ ~ModalDisplayed
    /\ i \in 1..Len(filteredTransactions)
    /\ newStatus \in StatusOptions(filteredTransactions[i].type)
    /\ LET t == filteredTransactions[i]
           call == StatusCall(t, newStatus)
           task == [handler |-> "handleStatusChange", pc |-> "update_sent",
                    call |-> IF call = None THEN [fn |-> "none"] ELSE call[1],
                    issued |-> call, input |-> t, payload |-> <<>>]
       IN  IF StatusUnchanged(t, newStatus)
             THEN /\ step' = [handler |-> "handleStatusChange", outcome |-> "returned",
                              t |-> t, newStatus |-> newStatus]
                  /\ UNCHANGED tasks
             ELSE \E slot \in 1..MaxHandlers :
                  /\ FirstFree(slot)
                  /\ tasks' = [tasks EXCEPT ![slot] =
                           IF call = None THEN LoadStarted(task) ELSE task]
                  /\ step' = [handler |-> "handleStatusChange", outcome |-> "called",
                              t |-> t, newStatus |-> newStatus]
    /\ UNCHANGED <<searchVars, bankVars, gatewayVars, user, createVars, txs, modalVars>>

\* The remote service handles the call the handler in slot awaits.
Backend(slot, ok) ==
    LET task == tasks[slot]
    IN  /\ task.pc \in {"update_sent", "users_sent", "trx_sent"}
        /\ step' = [handler |-> "Backend"]
        /\ UNCHANGED <<searchVars, bankVars, accounts, last, modalVars, user, createVars>>
        /\ CASE task.pc = "update_sent" /\ task.call.fn = "adminUpdateUserBalance" ->
                 LET written == adminUpdateUserBalance(profiles, task.call.userId,
                                    task.call.amount[1], task.call.operation)
                 IN  /\ ok
                     /\ \A r \in Range(written) : r.balance \in (0 - MaxBalance)..MaxBalance
                     /\ profiles' = written
                     /\ txs' = txs
                     /\ tasks' = [tasks EXCEPT ![slot].pc = "update_answered"]
             [] task.pc = "update_sent" /\ task.call.fn # "adminUpdateUserBalance" ->
                 /\ ok
                 /\ txs' = UpdateStatus(txs, task.call.id, task.call.status)
                 /\ profiles' = profiles
                 /\ tasks' = [tasks EXCEPT ![slot].pc = "update_answered"]
             [] task.pc = "users_sent" ->
                 /\ tasks' = [tasks EXCEPT ![slot].pc = "users_answered",
                                           ![slot].payload =
                        IF ok THEN [i \in 1..Len(profiles) |-> ListedUser(profiles[i])]
                              ELSE <<>>]
                 /\ UNCHANGED <<profiles, txs>>
             [] task.pc = "trx_sent" ->
                 /\ ok
                 /\ tasks' = [tasks EXCEPT ![slot].pc = "trx_answered",
                                           ![slot].payload = txs]
                 /\ UNCHANGED <<profiles, txs>>

\* The answer arrives and the handler in slot runs to its next await, or to
\* its end.
Resume(slot) ==
    LET task == tasks[slot]
    IN  /\ task.pc \in {"update_answered", "users_answered", "trx_answered"}
        /\ UNCHANGED <<bankVars, gatewayVars, txs, trxSearch, user, createVars>>
        /\ CASE task.pc = "update_answered" ->
                 /\ tasks' = [tasks EXCEPT ![slot] = LoadStarted(task)]
                 /\ step' = [handler |-> task.handler, outcome |-> "loadData"]
                 /\ IF task.handler = "handleBalanceSubmit"
                       THEN /\ isBalanceModalOpen' = FALSE
                            /\ selectedUserForBalance' = None
                            /\ balanceAmount' = <<>>
                            /\ UNCHANGED balanceOperation
                       ELSE UNCHANGED modalVars
                 /\ UNCHANGED <<users, transactions, filteredTransactions>>
             [] task.pc = "users_answered" ->
                 /\ users' = task.payload
                 /\ filteredTransactions' =
                        FilterTransactions(trxSearch, transactions, task.payload)
                 /\ tasks' = [tasks EXCEPT ![slot].pc = "trx_sent",
                                           ![slot].payload = <<>>,
                                           ![slot].issued =
                                                Append(@, [fn |-> "getAllTransactions"])]
                 /\ step' = [handler |-> task.handler, outcome |-> "setUsers"]
                 /\ UNCHANGED <<transactions, modalVars>>
             [] task.pc = "trx_answered" ->
                 /\ transactions' = task.payload
                 /\ filteredTransactions' =
                        FilterTransactions(trxSearch, task.payload, users)
                 /\ tasks' = [tasks EXCEPT ![slot] = Idle]
                 /\ step' = [handler |-> task.handler, outcome |-> "done",
                             issued |-> task.issued]
                 /\ UNCHANGED <<users, modalVars>>

(***************************************************************************)
(* The console specifications: an admin is signed in, the page has just    *)
(* mounted and its effect has started loadData.                            *)
(***************************************************************************)
PanelProfiles ==
    <<[FullRow EXCEPT !.balance = 0], [SecondRow EXCEPT !.balance = 5]>>

PanelTxs ==
    <<MkTrx(<<"T", "1">>, UserIdOf(2), "DEPOSIT", "PENDING"),
      MkTrx(<<"T", "2">>, UserIdOf(2), "WITHDRAWAL", "PENDING"),
      MkTrx(<<"T", "3">>, UserIdOf(1), "TRANSFER", "SUCCESS")>>

\* What the balance input can hold.
BalanceInputs ==
    {<<>>, <<"5">>, <<"-", "5">>, <<"a">>, <<"5", "a">>}

\* loadData as the mount effect starts it.
MountTask ==
    [handler |-> "mount", pc |-> "users_sent", call |-> [fn |-> "none"],
     issued |-> <<[fn |-> "getAllUsers"]>>, input |-> <<>>, payload |-> <<>>]

\* The signed-in administrator, as login maps the first profile row.
AdminUser == mapProfileToUser(PanelProfiles[1], FirstAccount)

InitPanel ==
    /\ SearchIdle
    /\ BankIdle
    /\ accounts = {FirstAccount, SecondAccount}
    /\ last = [op |-> "none"]
    /\ txs = PanelTxs
    /\ isBalanceModalOpen = FALSE
    /\ selectedUserForBalance = None
    /\ balanceAmount = <<>>
    /\ balanceOperation = "add"
    /\ tasks = [i \in 1..MaxHandlers |-> IF i = 1 THEN MountTask ELSE Idle]
    /\ step = [handler |-> "none"]
    /\ profiles = PanelProfiles
    /\ user = Some(AdminUser)
    /\ isCreateModalOpen = FALSE
    /\ createData = EmptyCreateData
    /\ createError = None

\* The Users tab: the balance modal.
NextBalance ==
    \/ \E i \in 1..Len(users) : openBalanceModal(i)
    \/ \E a \in BalanceInputs : setBalanceAmount(a)
    \/ \E o \in {"add", "set"} : setBalanceOperation(o)
    \/ closeBalanceModal
    \/ handleBalanceSubmit
    \/ \E slot \in 1..MaxHandlers, ok \in BOOLEAN : Backend(slot, ok)
    \/ \E slot \in 1..MaxHandlers : Resume(slot)

SpecBalance == InitPanel /\ [][NextBalance]_vars

\* The Transactions tab: the status selectors.
NextStatus ==
    \/ \E i \in 1..Len(filteredTransactions),
          newStatus \in {"PENDING", "SUCCESS", "REJECTED", "CANCELLED", "FAILED"} :
            handleStatusChange(i, newStatus)
    \/ \E slot \in 1..MaxHandlers, ok \in BOOLEAN : Backend(slot, ok)
    \/ \E slot \in 1..MaxHandlers : Resume(slot)

SpecStatus == InitPanel /\ [][NextStatus]_vars

(***************************************************************************)
(* The create-user modal.                                                  *)
(***************************************************************************)
openCreateModal ==
    /\ ~isCreateModalOpen
    /\ ~ModalDisplayed
    /\ isCreateModalOpen' = TRUE
    /\ step' = [handler |-> "openCreateModal"]
    /\ UNCHANGED <<searchVars, bankVars, gatewayVars, user, txs, modalVars, tasks,
                   createData, createError>>

\* The X and Cancel buttons of the modal: setIsCreateModalOpen(false).
closeCreateModal ==
    /\ isCreateModalOpen
    /\ isCreateModalOpen' = FALSE
    /\ step' = [handler |-> "closeCreateModal"]
    /\ UNCHANGED <<searchVars, bankVars, gatewayVars, user, txs, modalVars, tasks,
                   createData, createError>>

\* onChange of a text input of the form: setCreateData({...createData, field}).
setCreateData(field, value) ==
    /\ isCreateModalOpen
    /\ createData' = [createData EXCEPT ![field] = value]
    /\ step' = [handler |-> "setCreateData"]
    /\ UNCHANGED <<searchVars, bankVars, gatewayVars, user, txs, modalVars, tasks,
                   isCreateModalOpen, createError>>

\* The submit calls out whatever the form holds.
CreateSubmitReturnsNever(data) == FALSE

\* !createData.fullName || !createData.email || !createData.password
CreateSubmitReturns(data) ==
    data.fullName = <<>> \/ data.email = <<>> \/ data.password = <<>>

\* The record handleCreateSubmit hands to adminCreateUser.
CreateUserData(data) ==
    LET parsed == ParseFloat(data.balance)
    IN  [fullName |-> data.fullName, email |-> data.email,
         phoneNumber |-> data.phoneNumber, password |-> data.password,
         balance |-> IF parsed = None THEN 0 ELSE parsed[1],
         isAdmin |-> data.isAdmin, isVerified |-> data.isVerified]

\* The form's submit, up to the await of adminCreateUser.
handleCreateSubmit ==
    /\ isCreateModalOpen
    /\ IF CreateSubmitReturns(createData)
          THEN /\ createError' = Some("Name, Email, and Password are required.")
               /\ step' = [handler |-> "handleCreateSubmit", outcome |-> "returned"]
               /\ UNCHANGED tasks
          ELSE \E slot \in DOMAIN tasks :
               LET call == [fn |-> "adminCreateUser",
                            userData |-> CreateUserData(createData)]
               IN  /\ FirstFree(slot)
                   /\ createError' = None
                   /\ tasks' = [tasks EXCEPT ![slot] =
                            [handler |-> "handleCreateSubmit", pc |-> "create_sent",
                             call |-> call, issued |-> <<call>>,
                             input |-> createData, payload |-> <<>>]]
                   /\ step' = [handler |-> "handleCreateSubmit", outcome |-> "called"]
    /\ UNCHANGED <<searchVars, bankVars, gatewayVars, user, txs, modalVars,
                   isCreateModalOpen, createData>>

\* The remote service handles the adminCreateUser call the handler in slot
\* awaits; the handler is answered with the gateway's result.
CreateBackend(slot, signUp, insert) ==
    /\ slot \in DOMAIN tasks
    /\ tasks[slot].pc = "create_sent"
    /\ adminCreateUser(tasks[slot].call.userData, signUp, insert)
    /\ tasks' = [tasks EXCEPT ![slot].pc = "create_answered",
                              ![slot].payload = Some(last'.result # None)]
    /\ step' = [handler |-> "Backend"]
    /\ UNCHANGED <<searchVars, bankVars, user, txs, modalVars, createVars>>

\* handleCreateSubmit after the await: if (success) ... else ...
ResumeCreate(slot) ==
    /\ slot \in DOMAIN tasks
    /\ tasks[slot].pc = "create_answered"
    /\ IF tasks[slot].payload[1]
          THEN /\ isCreateModalOpen' = FALSE
               /\ createData' = EmptyCreateData
               /\ UNCHANGED createError
               /\ tasks' = [tasks EXCEPT ![slot] =
                                LoadStarted([tasks[slot] EXCEPT !.payload = <<>>])]
               /\ step' = [handler |-> "handleCreateSubmit", outcome |-> "loadData"]
          ELSE /\ createError' = Some("Failed to create user. Email might be taken.")
               /\ UNCHANGED <<isCreateModalOpen, createData>>
               /\ tasks' = [tasks EXCEPT ![slot] = Idle]
               /\ step' = [handler |-> "handleCreateSubmit", outcome |-> "failed"]
    /\ UNCHANGED <<searchVars, bankVars, gatewayVars, user, txs, modalVars>>

CreateFieldValues ==
    [fullName |-> {<<>>, <<"D">>},
     email |-> {<<>>, ExistingEmail, <<"D", "@", "x">>},
     password |-> {<<>>, <<"p">>}]

\* The console with one account and its profile row, so that an account can
\* still be created.
InitCreate ==
    /\ SearchIdle
    /\ BankIdle
    /\ accounts = {FirstAccount}
    /\ profiles = <<PanelProfiles[1]>>
    /\ last = [op |-> "none"]
    /\ txs = PanelTxs
    /\ isBalanceModalOpen = FALSE
    /\ selectedUserForBalance = None
    /\ balanceAmount = <<>>
    /\ balanceOperation = "add"
    /\ tasks = [i \in 1..MaxHandlers |-> IF i = 1 THEN MountTask ELSE Idle]
    /\ step = [handler |-> "none"]
    /\ user = Some(AdminUser)
    /\ isCreateModalOpen = FALSE
    /\ createData = EmptyCreateData
    /\ createError = None

NextCreate ==
    \/ openCreateModal
    \/ closeCreateModal
    \/ \E field \in DOMAIN CreateFieldValues :
            \E value \in CreateFieldValues[field] : setCreateData(field, value)
    \/ handleCreateSubmit
    \/ \E slot \in 1..MaxHandlers, signUp \in {"ok", "error", "nouser", "throw"},
          insert \in {"ok", "error", "throw"} : CreateBackend(slot, signUp, insert)
    \/ \E slot \in 1..MaxHandlers : ResumeCreate(slot)
    \/ \E slot \in 1..MaxHandlers, ok \in BOOLEAN : Backend(slot, ok)
    \/ \E slot \in 1..MaxHandlers : Resume(slot)

SpecCreate == InitCreate /\ [][NextCreate]_vars

(***************************************************************************)
(* C13: the validation of the create-user form.                            *)
(***************************************************************************)

\* C13: a submit of the create-user form issues the adminCreateUser call
\* exactly when full name, email and password are all non-empty; a submit
\* with one of them empty sets the inline error, leaves the running handlers,
\* the accounts and the profiles as they were, and leaves the modal open with
\* the form data unchanged.
C13_CreateValidation ==
    [][(step'.handler = "handleCreateSubmit"
            /\ step'.outcome \in {"returned", "called"}) =>
        LET complete == /\ createData.fullName # <<>>
                        /\ createData.email # <<>>
                        /\ createData.password # <<>>
        IN  /\ step'.outcome = "called" <=> complete
            /\ step'.outcome = "called" =>
                    \E slot \in DOMAIN tasks :
                        /\ tasks[slot].pc = "idle"
                        /\ tasks'[slot].issued =
                                <<[fn |-> "adminCreateUser",
                                   userData |-> CreateUserData(createData)]>>
            /\ step'.outcome = "returned" =>
                    /\ createError' = Some("Name, Email, and Password are required.")
                    /\ tasks' = tasks
                    /\ accounts' = accounts
                    /\ profiles' = profiles
                    /\ isCreateModalOpen' /\ isCreateModalOpen
                    /\ createData' = createData]_vars

\* A submit with a name and an email but no password returned with the
\* inline error.
C13_Witness ==
    /\ step = [handler |-> "handleCreateSubmit", outcome |-> "returned"]
    /\ createData.fullName # <<>>
    /\ createData.email # <<>>
    /\ createData.password = <<>>
    /\ createError = Some("Name, Email, and Password are required.")
    /\ isCreateModalOpen

(***************************************************************************)
(* The session: useAuth() hands the console the user, who can change while *)
(* the console is mounted; the effect on [user] runs at mount and at every *)
(* change.                                                                 *)
(***************************************************************************)

\* !user || !user.isAdmin: the console returns the access-denied message and
\* renders nothing else.
AccessDenied == user = None \/ ~user[1].isAdmin

\* user?.isAdmin, the condition of the effect.
EffectLoads(u) == u # None /\ u[1].isAdmin

\* The session's user changes to u and the effect runs.
setUser(u) ==
    /\ u # user
    /\ user' = u
    /\ IF EffectLoads(u)
          THEN \E slot \in DOMAIN tasks :
                  /\ FirstFree(slot)
                  /\ tasks' = [tasks EXCEPT ![slot] = MountTask]
          ELSE UNCHANGED tasks
    /\ step' = [handler |-> "setUser"]
    /\ UNCHANGED <<searchVars, bankVars, gatewayVars, txs, modalVars, createVars>>

CustomerUser == mapProfileToUser(PanelProfiles[2], SecondAccount)

SessionUsers == {None, Some(AdminUser), Some(CustomerUser)}

\* The console mounts under any session; its effect has run.
InitAccess ==
    /\ SearchIdle
    /\ BankIdle
    /\ accounts = {FirstAccount, SecondAccount}
    /\ profiles = PanelProfiles
    /\ last = [op |-> "none"]
    /\ txs = PanelTxs
    /\ isBalanceModalOpen = FALSE
    /\ selectedUserForBalance = None
    /\ balanceAmount = <<>>
    /\ balanceOperation = "add"
    /\ step = [handler |-> "none"]
    /\ user \in SessionUsers
    /\ tasks = [i \in 1..MaxHandlers |->
                    IF i = 1 /\ EffectLoads(user) THEN MountTask ELSE Idle]
    /\ isCreateModalOpen = FALSE
    /\ createData = EmptyCreateData
    /\ createError = None

\* The handlers are reachable only through what the console renders when
\* access is granted.
NextAccess ==
    \/ \E u \in SessionUsers : setUser(u)
    \/ \E i \in 1..Len(filteredTransactions),
          newStatus \in {"PENDING", "SUCCESS", "REJECTED", "CANCELLED", "FAILED"} :
            ~AccessDenied /\ handleStatusChange(i, newStatus)
    \/ ~AccessDenied /\ openCreateModal
    \/ ~AccessDenied /\ closeCreateModal
    \/ \E slot \in 1..MaxHandlers, ok \in BOOLEAN : Backend(slot, ok)
    \/ \E slot \in 1..MaxHandlers : Resume(slot)

SpecAccess == InitAccess /\ [][NextAccess]_vars

(***************************************************************************)
(* C14: the console without an administrator.                              *)
(***************************************************************************)

\* The handler in slot issues getAllUsers or getAllTransactions in this step.
IssuesLoadCall(slot) ==
    /\ tasks'[slot].pc \in {"users_sent", "trx_sent"}
    /\ tasks'[slot] # tasks[slot]

\* The step is a handler of the rendered console starting.
HandlerStarts ==
    /\ step'.handler \notin {"setUser", "Backend"}
    /\ "outcome" \in DOMAIN step' => step'.outcome \in {"returned", "called"}

\* C14: while the session has no user or a user who is no administrator, no
\* handler of the console is started, the effect starts no loadData, and the
\* console issues no getAllUsers and no getAllTransactions call.
C14_NoLoadWithoutAdmin ==
    [][(user' = None \/ ~user'[1].isAdmin) =>
            /\ ~HandlerStarts
            /\ \A slot \in DOMAIN tasks :
                    /\ tasks[slot].pc = "idle" => tasks'[slot].pc = "idle"
                    /\ ~IssuesLoadCall(slot)]_vars

(***************************************************************************)
(* Concurrent calls of authService.updateUserBalance: each call is an      *)
(* async function that awaits one update of the profiles table; the        *)
(* service applies the updates of the calls in flight in any order.        *)
(***************************************************************************)
WriteValues == {0, 5, MaxBalance}

\* updateUserBalance(userId, newBalance) up to its await.
callUpdateUserBalance(userId, newBalance) ==
    /\ \E slot \in DOMAIN tasks :
            /\ FirstFree(slot)
            /\ tasks' = [tasks EXCEPT ![slot] =
                    [handler |-> "updateUserBalance", pc |-> "update_sent",
                     call |-> [fn |-> "updateUserBalance", userId |-> userId,
                               newBalance |-> newBalance]]]
    /\ step' = [handler |-> "updateUserBalance"]
    /\ UNCHANGED <<searchVars, bankVars, gatewayVars, txs, modalVars, user, createVars>>

\* The service applies the update of the call in slot.
applyUpdateUserBalance(slot) ==
    /\ tasks[slot].pc = "update_sent"
    /\ profiles' = updateUserBalance(profiles, tasks[slot].call.userId,
                                     tasks[slot].call.newBalance)
    /\ last' = [op |-> "updateUserBalance", userId |-> tasks[slot].call.userId,
                newBalance |-> tasks[slot].call.newBalance]
    /\ tasks' = [tasks EXCEPT ![slot].pc = "update_answered"]
    /\ step' = [handler |-> "Backend"]
    /\ UNCHANGED <<searchVars, bankVars, accounts, txs, modalVars, user, createVars>>

\* The await ends and the call returns.
returnUpdateUserBalance(slot) ==
    /\ tasks[slot].pc = "update_answered"
    /\ tasks' = [tasks EXCEPT ![slot] = Idle]
    /\ step' = [handler |-> "updateUserBalance", outcome |-> "done"]
    /\ UNCHANGED <<searchVars, bankVars, gatewayVars, txs, modalVars, user, createVars>>

InitWrites ==
    /\ SearchIdle
    /\ BankIdle
    /\ accounts = {FirstAccount, SecondAccount}
    /\ profiles = PanelProfiles
    /\ last = [op |-> "none"]
    /\ txs = <<>>
    /\ isBalanceModalOpen = FALSE
    /\ selectedUserForBalance = None
    /\ balanceAmount = <<>>
    /\ balanceOperation = "add"
    /\ tasks = [i \in 1..MaxWriters |-> Idle]
    /\ step = [handler |-> "none"]
    /\ user = None
    /\ isCreateModalOpen = FALSE
    /\ createData = EmptyCreateData
    /\ createError = None

NextWrites ==
    \/ \E a \in accounts, v \in WriteValues : callUpdateUserBalance(a.id, v)
    \/ \E slot \in 1..MaxWriters : applyUpdateUserBalance(slot)
    \/ \E slot \in 1..MaxWriters : returnUpdateUserBalance(slot)

SpecWrites == InitWrites /\ [][NextWrites]_vars

(***************************************************************************)
(* C15: updateUserBalance, last writer wins.                               *)
(***************************************************************************)

\* C15: the update of an updateUserBalance(userId, v) call is applied
\* whatever the stored balance is, makes the stored balance of the row with
\* id userId v and changes no other row; so the stored balance of the user
\* written last is the value of the write applied last, whatever the calls
\* applied before it wrote.
C15_LastWriterWins ==
    /\ [](last.op = "updateUserBalance" =>
            \A i \in 1..Len(profiles) :
                profiles[i].id = last.userId => profiles[i].balance = last.newBalance)
    /\ [][\A slot \in DOMAIN tasks :
            (tasks[slot].pc = "update_sent" /\ tasks'[slot].pc = "update_answered") =>
                /\ \A i \in 1..Len(profiles') :
                        profiles'[i].id = tasks[slot].call.userId =>
                            profiles'[i].balance = tasks[slot].call.newBalance
                /\ Len(profiles') = Len(profiles)
                /\ \A i \in 1..Len(profiles) :
                        profiles[i].id # tasks[slot].call.userId =>
                            profiles'[i] = profiles[i]]_vars

\* Two calls for the same user were in flight together; the write of the
\* second call was applied first and the write of the first call last: the
\* stored balance is the first call's value, the second call's is lost.
C15_Witness ==
    /\ tasks[1].pc = "update_answered"
    /\ tasks[2].pc = "update_answered"
    /\ tasks[1].call.userId = tasks[2].call.userId
    /\ tasks[1].call.newBalance # tasks[2].call.newBalance
    /\ last.op = "updateUserBalance"
    /\ last.newBalance = tasks[1].call.newBalance
    /\ \E i \in 1..Len(profiles) :
            /\ profiles[i].id = tasks[1].call.userId
            /\ profiles[i].balance = tasks[1].call.newBalance

(***************************************************************************)
(* Overlapping loads: the console just mounted, its first loadData is      *)
(* running, and the administrator creates a user, which starts a second    *)
(* loadData.  Every remote call succeeds unless the email is taken.        *)
(***************************************************************************)
ReloadFieldValues ==
    [fullName |-> {<<"D">>}, email |-> {<<"D", "@", "x">>}, password |-> {<<"p">>}]

InitReload ==
    /\ SearchIdle
    /\ BankIdle
    /\ accounts = {FirstAccount}
    /\ profiles = <<PanelProfiles[1]>>
    /\ last = [op |-> "none"]
    /\ txs = PanelTxs
    /\ isBalanceModalOpen = FALSE
    /\ selectedUserForBalance = None
    /\ balanceAmount = <<>>
    /\ balanceOperation = "add"
    /\ tasks = [i \in 1..MaxLoads |-> IF i = 1 THEN MountTask ELSE Idle]
    /\ step = [handler |-> "none"]
    /\ user = Some(AdminUser)
    /\ isCreateModalOpen = FALSE
    /\ createData = EmptyCreateData
    /\ createError = None

NextReload ==
    \/ openCreateModal
    \/ \E field \in DOMAIN ReloadFieldValues :
            \E value \in ReloadFieldValues[field] : setCreateData(field, value)
    \/ handleCreateSubmit
    \/ \E slot \in 1..MaxLoads, signUp \in {"ok", "error"} :
            CreateBackend(slot, signUp, "ok")
    \/ \E slot \in 1..MaxLoads : ResumeCreate(slot)
    \/ \E slot \in 1..MaxLoads : Backend(slot, TRUE)
    \/ \E slot \in 1..MaxLoads : Resume(slot)

SpecReload == InitReload /\ [][NextReload]_vars

(***************************************************************************)
(* C18: what the console holds once its loads have completed.              *)
(***************************************************************************)

\* C18: whenever no handler of the console is running (every loadData has
\* completed), the users the console holds are the rows of the profiles
\* table as getAllUsers lists them and the transactions it holds are the
\* transactions of the service.
C18_LoadsConverge ==
    (\A slot \in DOMAIN tasks : tasks[slot].pc = "idle") =>
        /\ users = [i \in 1..Len(profiles) |-> ListedUser(profiles[i])]
        /\ transactions = txs

(***************************************************************************)
(* C4, C5, C6: the balance modal.                                          *)
(***************************************************************************)

\* The number a decimal numeral among the inputs denotes.
Numerals == (<<"5">> :> 5) @@ (<<"-", "5">> :> (0 - 5))

BalanceOf(table, userId) == (CHOOSE r \in Range(table) : r.id = userId).balance

\* The step in which the service handles the balance call of the handler in
\* slot.
BalanceCallHandled(slot) ==
    /\ tasks[slot].pc = "update_sent"
    /\ tasks[slot].handler = "handleBalanceSubmit"
    /\ tasks'[slot].pc = "update_answered"

OtherRowsUnchanged(userId) ==
    /\ Len(profiles') = Len(profiles)
    /\ \A i \in 1..Len(profiles) :
            /\ profiles'[i].id = profiles[i].id
            /\ profiles[i].id # userId => profiles'[i] = profiles[i]

\* C4: a submit in 'add' mode for the selected user, with an input that
\* parses to d, takes the user's stored balance from B to B + d (and d is the
\* number the input denotes when the input is a numeral); no other row
\* changes.
C4_AddBalance ==
    [][\A slot \in 1..MaxHandlers :
        (BalanceCallHandled(slot) /\ tasks[slot].call.operation = "add") =>
            LET call == tasks[slot].call
            IN  /\ call.amount # None
                /\ (tasks[slot].input \in DOMAIN Numerals
                        => call.amount[1] = Numerals[tasks[slot].input])
                /\ BalanceOf(profiles', call.userId)
                        = BalanceOf(profiles, call.userId) + call.amount[1]
                /\ OtherRowsUnchanged(call.userId)]_vars

\* 'add' with the input "5" for the user shown with balance 5: the stored
\* balance is 10.
C4_Witness ==
    \E slot \in 1..MaxHandlers :
        /\ tasks[slot].pc = "update_answered"
        /\ tasks[slot].handler = "handleBalanceSubmit"
        /\ tasks[slot].call.operation = "add"
        /\ tasks[slot].input = <<"5">>
        /\ selectedUserForBalance # None
        /\ selectedUserForBalance[1].id = tasks[slot].call.userId
        /\ selectedUserForBalance[1].balance = 5
        /\ BalanceOf(profiles, tasks[slot].call.userId) = 10

\* C5: a submit in 'set' mode for the selected user, with an input that
\* parses to v, makes the user's stored balance v whatever it was; no other
\* row changes.
C5_SetBalance ==
    [][\A slot \in 1..MaxHandlers :
        (BalanceCallHandled(slot) /\ tasks[slot].call.operation = "set") =>
            LET call == tasks[slot].call
            IN  /\ call.amount # None
                /\ (tasks[slot].input \in DOMAIN Numerals
                        => call.amount[1] = Numerals[tasks[slot].input])
                /\ BalanceOf(profiles', call.userId) = call.amount[1]
                /\ OtherRowsUnchanged(call.userId)]_vars

\* 'set' with the input "5" for the user shown with balance 10: the stored
\* balance is 5.
C5_Witness ==
    \E slot \in 1..MaxHandlers :
        /\ tasks[slot].pc = "update_answered"
        /\ tasks[slot].handler = "handleBalanceSubmit"
        /\ tasks[slot].call.operation = "set"
        /\ tasks[slot].input = <<"5">>
        /\ selectedUserForBalance # None
        /\ selectedUserForBalance[1].id = tasks[slot].call.userId
        /\ selectedUserForBalance[1].balance = 10
        /\ BalanceOf(profiles, tasks[slot].call.userId) = 5

HasNoDigit(s) == \A i \in 1..Len(s) : s[i] \notin Digits

\* C6: a submit with no selected user, an empty input or an input with no
\* digit in it returns early, and a submit that returns early issues no call
\* and starts no reload (no handler is left running), changes no profile row,
\* and leaves the modal open with the same selected user and input.
C6_RejectedSubmit ==
    [][(step'.handler = "handleBalanceSubmit"
            /\ step'.outcome \in {"returned", "called"}) =>
        /\ (\/ selectedUserForBalance = None
            \/ balanceAmount = <<>>
            \/ HasNoDigit(balanceAmount)) => step'.outcome = "returned"
        /\ step'.outcome = "returned" =>
            /\ tasks' = tasks
            /\ profiles' = profiles
            /\ isBalanceModalOpen' /\ isBalanceModalOpen
            /\ selectedUserForBalance' = selectedUserForBalance
            /\ balanceAmount' = balanceAmount]_vars

\* The submit of the input "a" returned early.
C6_Witness ==
    /\ step = [handler |-> "handleBalanceSubmit", outcome |-> "returned"]
    /\ balanceAmount = <<"a">>
    /\ isBalanceModalOpen
    /\ selectedUserForBalance # None

(***************************************************************************)
(* C8, C9: the status selector.                                            *)
(***************************************************************************)
ExpectedOptions(type) ==
    CASE type = "DEPOSIT" -> {"PENDING", "SUCCESS", "REJECTED"}
      [] type = "WITHDRAWAL" ->
            {"PENDING", "SUCCESS", "REJECTED", "CANCELLED", "FAILED"}
      [] type = "TRANSFER" -> {}

\* C8: every rendered row offers the statuses of its type: PENDING, SUCCESS,
\* REJECTED for a DEPOSIT, those and CANCELLED, FAILED for a WITHDRAWAL, none
\* for a TRANSFER; and every status change under way was chosen among them.
C8_StatusOptions ==
    /\ \A t \in Range(filteredTransactions) :
            StatusOptions(t.type) = ExpectedOptions(t.type)
    /\ \A slot \in 1..MaxHandlers :
            (tasks[slot].pc # "idle" /\ tasks[slot].handler = "handleStatusChange") =>
                /\ tasks[slot].input.type # "TRANSFER"
                /\ tasks[slot].call.status \in ExpectedOptions(tasks[slot].input.type)

\* A WITHDRAWAL was set to CANCELLED, with all three types rendered.
C8_Witness ==
    /\ {t.type : t \in Range(filteredTransactions)}
            = {"DEPOSIT", "WITHDRAWAL", "TRANSFER"}
    /\ \E slot \in 1..MaxHandlers :
            /\ tasks[slot].pc = "update_answered"
            /\ tasks[slot].handler = "handleStatusChange"
            /\ tasks[slot].input.type = "WITHDRAWAL"
            /\ tasks[slot].call.status = "CANCELLED"
            /\ \E t \in Range(txs) :
                    t.id = tasks[slot].input.id /\ t.status = "CANCELLED"

ExpectedStatusCall(t, s) ==
    [fn |-> IF t.type = "DEPOSIT" THEN "updateDepositStatus"
            ELSE "updateWithdrawalStatus",
     id |-> t.id, status |-> s]

StatusCalls(issued) ==
    {i \in 1..Len(issued) :
        issued[i].fn \in {"updateDepositStatus", "updateWithdrawalStatus"}}

\* C9: handleStatusChange(t, s) with s = t.status issues no call and starts
\* no reload; otherwise it issues exactly one call, updateDepositStatus(t.id,
\* s) for a DEPOSIT and updateWithdrawalStatus(t.id, s) for a WITHDRAWAL, and
\* the calls of loadData are issued only once that call has been answered.
C9_StatusChange ==
    [][/\ (step'.handler = "handleStatusChange"
            /\ step'.outcome \in {"returned", "called"}) =>
            IF step'.newStatus = step'.t.status
                THEN /\ step'.outcome = "returned"
                     /\ tasks' = tasks
                     /\ txs' = txs
                ELSE \E slot \in 1..MaxHandlers :
                     /\ tasks[slot].pc = "idle"
                     /\ tasks'[slot].pc = "update_sent"
                     /\ tasks'[slot].issued
                            = <<ExpectedStatusCall(step'.t, step'.newStatus)>>
                     /\ \A other \in 1..MaxHandlers \ {slot} :
                            tasks'[other] = tasks[other]
       /\ \A slot \in 1..MaxHandlers :
            (tasks'[slot].pc # "idle" /\ tasks'[slot].handler = "handleStatusChange") =>
                /\ Cardinality(StatusCalls(tasks'[slot].issued)) = 1
                /\ (tasks[slot].pc # "idle"
                     /\ Len(tasks'[slot].issued) > Len(tasks[slot].issued)
                     /\ Len(tasks[slot].issued) = 1)
                        => (tasks[slot].pc = "update_answered"
                            /\ tasks'[slot].issued[2].fn = "getAllUsers")]_vars

\* A status change of a DEPOSIT ran to its end: the status call, then the two
\* calls of loadData.
C9_Witness ==
    /\ step.handler = "handleStatusChange"
    /\ step.outcome = "done"
    /\ Len(step.issued) = 3
    /\ step.issued[1].fn = "updateDepositStatus"
    /\ step.issued[2].fn = "getAllUsers"
    /\ step.issued[3].fn = "getAllTransactions"

====
